---- MODULE Spec2Model ----
(***************************************************************************)
(* A model of progress_bar.py: the ProgressBar class (construction,        *)
(* update, display and the helpers display calls) and the simulate_task    *)
(* driver loop.  Python floats are IEEE-754 binary64 values; the           *)
(* percentage, the fill length and the "%.2f" status text are computed     *)
(* here with binary64 rounding (53-bit significand, round-half-to-even),   *)
(* not with exact rational arithmetic.                                     *)
(***************************************************************************)
EXTENDS Integers, Sequences, FiniteSets, TLC

(***************************************************************************)
(* Bounds of the model.                                                    *)
(***************************************************************************)
MaxTotal == 3
MaxBarLength == 3
MaxSpinner == 2
MaxAmount == 2
MaxSum == 3
MaxBelow == 1
MaxDisplays == 3
MaxSteps == 10
MaxStepIncrement == 3

(***************************************************************************)
(* binary64 arithmetic.  A float is [s, m, e]: sign s in {1,-1}, m the     *)
(* Mant-bit significand and e the exponent, so the value is s * m * 2^e.   *)
(* A significand is too wide for a machine integer here, so naturals are   *)
(* sequences of limbs in base Base, least significant first, without       *)
(* leading zero limbs; zero is the empty sequence.                         *)
(***************************************************************************)
Mant == 53
LimbBits == 7
Base == 2 ^ LimbBits

FZero == [s |-> 1, m |-> <<>>, e |-> 0]

Abs(n) == IF n < 0 THEN -n ELSE n

RECURSIVE Big(_)
Big(n) == IF n = 0 THEN <<>> ELSE <<n % Base>> \o Big(n \div Base)

RECURSIVE BToInt(_)
BToInt(m) == IF m = <<>> THEN 0 ELSE m[1] + Base * BToInt(Tail(m))

RECURSIVE BNorm(_)
BNorm(m) ==
  IF m = <<>> \/ m[Len(m)] # 0 THEN m ELSE BNorm(SubSeq(m, 1, Len(m) - 1))

BitLen(m) ==
  IF m = <<>> THEN 0
  ELSE LimbBits * (Len(m) - 1)
       + (CHOOSE n \in 1..LimbBits : 2 ^ (n - 1) <= m[Len(m)] /\ m[Len(m)] < 2 ^ n)

BOdd(m) == m # <<>> /\ m[1] % 2 = 1

RECURSIVE BInc(_)
BInc(m) ==
  IF m = <<>> THEN <<1>>
  ELSE IF m[1] + 1 < Base THEN <<m[1] + 1>> \o Tail(m)
       ELSE <<0>> \o BInc(Tail(m))

\* m * k for a small natural k.
RECURSIVE BMulFrom(_, _, _, _)
BMulFrom(m, k, i, carry) ==
  IF i > Len(m) THEN Big(carry)
  ELSE LET v == m[i] * k + carry
       IN  <<v % Base>> \o BMulFrom(m, k, i + 1, v \div Base)

BMul(m, k) == BNorm(BMulFrom(m, k, 1, 0))

\* Quotient and remainder of m by a small positive d.
RECURSIVE BDivFrom(_, _, _, _)
BDivFrom(m, d, i, r) ==
  IF i = 0 THEN [q |-> <<>>, r |-> r]
  ELSE LET cur  == r * Base + m[i]
           rest == BDivFrom(m, d, i - 1, cur % d)
       IN  [q |-> Append(rest.q, cur \div d), r |-> rest.r]

BDivMod(m, d) ==
  LET res == BDivFrom(m, d, Len(m), 0) IN [q |-> BNorm(res.q), r |-> res.r]

\* m * 2^n.
BShl(m, n) ==
  IF m = <<>> THEN <<>>
  ELSE [i \in 1..(n \div LimbBits) |-> 0] \o BMul(m, 2 ^ (n % LimbBits))

\* floor(m / 2^n), and whether a nonzero part was shifted out.
BShr(m, n) ==
  LET limbs == n \div LimbBits
      low   == SubSeq(m, 1, IF limbs < Len(m) THEN limbs ELSE Len(m))
      high  == SubSeq(m, limbs + 1, Len(m))
      dm    == BDivMod(high, 2 ^ (n % LimbBits))
  IN  [q |-> dm.q, lost |-> dm.r # 0 \/ \E i \in 1..Len(low) : low[i] # 0]

\* Round-half-to-even of (q + f) * 2^e to Mant bits, where 0 <= f < 1 and
\* sticky tells whether f # 0 (q has at least Mant bits whenever sticky).
RoundNat(s, q, sticky, e) ==
  LET n == BitLen(q) - Mant
  IN  IF n <= 0 THEN [s |-> s, m |-> BShl(q, -n), e |-> e + n]
      ELSE LET most  == BShr(q, n - 1)
               last  == BDivMod(most.q, 2)
               up    == last.r = 1 /\ (sticky \/ most.lost \/ BOdd(last.q))
               m     == IF up THEN BInc(last.q) ELSE last.q
           IN  IF BitLen(m) > Mant
               THEN [s |-> s, m |-> BShr(m, 1).q, e |-> e + n + 1]
               ELSE [s |-> s, m |-> m, e |-> e + n]

\* a / d for a natural significand a and a small positive d, times 2^e.
DivRound(s, a, d, e) ==
  LET p  == Mant + 1 + BitLen(Big(d))
      dm == BDivMod(BShl(a, p), d)
  IN  RoundNat(s, dm.q, dm.r # 0, e - p)

\* int / int (true division), t > 0.
FromRatio(c, t) ==
  IF c = 0 THEN FZero
  ELSE DivRound(IF c < 0 THEN -1 ELSE 1, Big(Abs(c)), t, 0)

\* float * int, k > 0.
FMul(x, k) ==
  IF x.m = <<>> THEN FZero ELSE RoundNat(x.s, BMul(x.m, k), FALSE, x.e)

\* float / int, k > 0.
FDiv(x, k) ==
  IF x.m = <<>> THEN FZero ELSE DivRound(x.s, x.m, k, x.e)

\* int(float): truncation toward zero.
FTrunc(x) ==
  IF x.m = <<>> THEN 0
  ELSE x.s * BToInt(IF x.e >= 0 THEN BShl(x.m, x.e) ELSE BShr(x.m, -x.e).q)

\* float >= n for an integer n > 0.
FGeq(x, n) == x.s = 1 /\ FTrunc(x) >= n

\* The number of hundredths "%.2f" prints: the exact magnitude times 100,
\* rounded half to even.
FHundredths(x) ==
  IF x.m = <<>> THEN 0
  ELSE LET p == BMul(x.m, 100)
       IN  IF x.e >= 0 THEN BToInt(BShl(p, x.e))
           ELSE LET most == BShr(p, -x.e - 1)
                    last == BDivMod(most.q, 2)
                    h    == BToInt(last.q)
                IN  IF last.r = 1 /\ (most.lost \/ h % 2 = 1) THEN h + 1 ELSE h

(***************************************************************************)
(* Strings are sequences of tokens: one token per glyph, per character of  *)
(* the status text and per control or colour code.                         *)
(***************************************************************************)
\* An optional integer argument: None, or Some(n).
None == [is_none |-> TRUE, val |-> 0]

Some(n) == [is_none |-> FALSE, val |-> n]

DefaultSpinner == <<"g0", "g1", "g2", "g3", "g4", "g5", "g6", "g7", "g8", "g9">>

SimBarLength == 50

DefaultStyle ==
  [full_char      |-> "U+25B0",
   empty_char     |-> "U+25B1",
   color_full     |-> "ESC[1;38;2;224;0;90m",
   color_empty    |-> "ESC[1;38;2;54;65;82m",
   color_spinner  |-> "ESC[1;38;2;255;215;0m",
   color_status   |-> "ESC[1;38;2;104;118;244m",
   color_complete |-> "ESC[1;38;2;12;159;109m",
   reset          |-> "ESC[0m",
   clear_line     |-> "ESC[K"]

Digit == <<"0", "1", "2", "3", "4", "5", "6", "7", "8", "9">>

Min(a, b) == IF a < b THEN a ELSE b

\* ch * n; the empty string when n <= 0.
Rep(ch, n) == [i \in 1..n |-> ch]

\* str(n) for a natural n.
RECURSIVE Decimal(_)
Decimal(n) ==
  IF n < 10 THEN <<Digit[n + 1]>> ELSE Append(Decimal(n \div 10), Digit[(n % 10) + 1])

\* f'{x:.2f}'
Format2f(x) ==
  LET h == FHundredths(x)
  IN  (IF x.s = -1 THEN <<"-">> ELSE <<>>)
      \o Decimal(h \div 100) \o <<".", Digit[((h % 100) \div 10) + 1], Digit[(h % 10) + 1]>>

(***************************************************************************)
(* The state: the fields of one ProgressBar, the sink it writes to, the    *)
(* outcome of construction, and the frame of simulate_task.                *)
(***************************************************************************)
VARIABLES
  phase,          \* "new": not constructed, "live": constructed, "raised"
  arg_total,      \* the total passed to the constructor
  total, bar_length, spinner_chars, style,
  current_value, spinner_index,
  output,         \* the calls the sink received, oldest first
  sum_values,     \* sum of the amounts passed to update so far
  non_negative,   \* no amount passed to update so far was negative
  pc, total_steps, step_increment, i   \* simulate_task: position, arguments, loop value

obj == <<total, bar_length, spinner_chars, style, current_value, spinner_index>>
hist == <<sum_values, non_negative>>
sim == <<pc, total_steps, step_increment, i>>
vars == <<phase, arg_total, obj, output, hist, sim>>

\* _validate_total with the bound off by one
ValidateTotalRaises_OffByOne(t) == t.is_none \/ t.val <= 1

\* _validate_total raises
ValidateTotalRaises(t) == t.is_none \/ t.val <= 0

\* percentage
percentage(cur, tot) == FMul(FromRatio(cur, tot), 100)

filled_length(cur, tot, bl) == FTrunc(FMul(FDiv(percentage(cur, tot), 100), bl))

\* _generate_bar
generate_bar(cur, tot, bl, st) ==
  LET n == filled_length(cur, tot, bl)
  IN  <<st.color_full>> \o Rep(st.full_char, n) \o <<st.reset>>
      \o <<st.color_empty>> \o Rep(st.empty_char, bl - n) \o <<st.reset>>

\* _get_spinner: the string returned and the index left behind
get_spinner_text(chars, idx, st) == <<st.color_spinner, chars[idx], st.reset>>

\* the index advanced twice
get_spinner_next_Twice(chars, idx) == (idx + 2) % Len(chars)

get_spinner_next(chars, idx) == (idx + 1) % Len(chars)

is_complete(cur, tot) == FGeq(percentage(cur, tot), 100)

\* the completion colour forgotten
status_color_Plain(cur, tot, st) == st.color_status

status_color(cur, tot, st) ==
  IF is_complete(cur, tot) THEN st.color_complete ELSE st.color_status

status_text(cur, tot) ==
  IF is_complete(cur, tot)
  THEN <<"C", "o", "m", "p", "l", "e", "t", "e", "d", "!">>
  ELSE Append(Format2f(percentage(cur, tot)), "%")

\* the bar written before the spinner
display_line_BarFirst(cur, tot, bl, chars, idx, st) ==
  <<"\r", st.clear_line>> \o generate_bar(cur, tot, bl, st) \o <<" ">>
  \o get_spinner_text(chars, idx + 1, st) \o <<" ">>
  \o <<status_color(cur, tot, st)>> \o status_text(cur, tot) \o <<st.reset>>

\* the string display writes; spinner_chars is indexed from 0 in the source
display_line(cur, tot, bl, chars, idx, st) ==
  <<"\r", st.clear_line>> \o get_spinner_text(chars, idx + 1, st) \o <<" ">>
  \o generate_bar(cur, tot, bl, st) \o <<" ">>
  \o <<status_color(cur, tot, st)>> \o status_text(cur, tot) \o <<st.reset>>

\* the sum without the clamp
update_value_NoClamp(cur, value, tot) == cur + value

update_value(cur, value, tot) == Min(cur + value, tot)

(***************************************************************************)
(* The methods.                                                            *)
(***************************************************************************)
\* ProgressBar(total=t, bar_length=bl, spinner_chars=chars); a constructor
\* that raises produces no object, so the fields stay unset.
ProgressBar(t, bl, chars) ==
  /\ phase = "new"
  /\ arg_total' = t
  /\ IF ValidateTotalRaises(t)
     THEN /\ phase' = "raised"
          /\ UNCHANGED obj
     ELSE /\ phase' = "live"
          /\ total' = t.val
          /\ bar_length' = bl
          /\ spinner_chars' = chars
          /\ style' = DefaultStyle
          /\ current_value' = 0
          /\ spinner_index' = 0
  /\ UNCHANGED <<output, hist>>

\* an update that also turns the spinner
update_Spinning(value) ==
  /\ phase = "live"
  /\ current_value' = update_value(current_value, value, total)
  /\ spinner_index' = get_spinner_next(spinner_chars, spinner_index)
  /\ sum_values' = sum_values + value
  /\ non_negative' = (non_negative /\ value >= 0)
  /\ UNCHANGED <<phase, arg_total, total, bar_length, spinner_chars, style, output>>

update(value) ==
  /\ phase = "live"
  /\ current_value' = update_value(current_value, value, total)
  /\ sum_values' = sum_values + value
  /\ non_negative' = (non_negative /\ value >= 0)
  /\ UNCHANGED <<phase, arg_total, total, bar_length, spinner_chars, style,
                 spinner_index, output>>

display ==
  /\ phase = "live"
  /\ spinner_index' = get_spinner_next(spinner_chars, spinner_index)
  /\ output' = output \o
       <<[op |-> "write",
          data |-> display_line(current_value, total, bar_length,
                                spinner_chars, spinner_index, style)],
         [op |-> "flush"]>>
  /\ UNCHANGED <<phase, arg_total, total, bar_length, spinner_chars, style,
                 current_value, hist>>

(***************************************************************************)
(* A caller that constructs one bar and then calls update and display in   *)
(* any order.                                                              *)
(***************************************************************************)
Totals == -1..MaxTotal
Amounts == (-1..MaxAmount)
Spinners == {SubSeq(DefaultSpinner, 1, n) : n \in 1..MaxSpinner}

InitObj ==
  /\ phase = "new"
  /\ arg_total = None
  /\ total = 0
  /\ bar_length = 0
  /\ spinner_chars = <<>>
  /\ style = DefaultStyle
  /\ current_value = 0
  /\ spinner_index = 0
  /\ output = <<>>
  /\ sum_values = 0
  /\ non_negative = TRUE

Init ==
  /\ InitObj
  /\ pc = "idle"
  /\ total_steps = 0
  /\ step_increment = 0
  /\ i = 0

CallConstruct ==
  /\ pc = "idle"
  /\ \E bl \in 1..MaxBarLength, chars \in Spinners :
        \/ ProgressBar(None, bl, chars)
        \/ \E t \in Totals : ProgressBar(Some(t), bl, chars)
  /\ UNCHANGED sim

CallUpdate ==
  /\ pc = "idle"
  /\ \E value \in Amounts :
        /\ sum_values + value <= MaxSum
        /\ current_value + value >= -MaxBelow
        /\ update(value)
  /\ UNCHANGED sim

CallDisplay ==
  /\ pc = "idle"
  /\ Len(output) < 2 * MaxDisplays
  /\ display
  /\ UNCHANGED sim

Next == CallConstruct \/ CallUpdate \/ CallDisplay

Spec == Init /\ [][Next]_vars

(***************************************************************************)
(* simulate_task(total_steps, step_duration, step_increment).  The sleep   *)
(* changes no state.                                                       *)
(***************************************************************************)
SimInit ==
  /\ InitObj
  /\ pc = "start"
  /\ total_steps \in 0..MaxSteps
  /\ step_increment \in 1..MaxStepIncrement
  /\ i = 0

\* a range that ignores its step
range_next_Unit(v, step) == v + 1

\* range(0, total_steps, step_increment): the value after v
range_next(v, step) == v + step

\* progress_bar = ProgressBar(total=total_steps, bar_length=50)
SimConstruct ==
  /\ pc = "start"
  /\ ProgressBar(Some(total_steps), SimBarLength, DefaultSpinner)
  /\ pc' = IF ValidateTotalRaises(Some(total_steps)) THEN "raised" ELSE "loop"
  /\ UNCHANGED <<total_steps, step_increment, i>>

\* for _ in range(0, total_steps, step_increment): ... update(step_increment)
SimUpdate ==
  /\ pc = "loop"
  /\ i < total_steps
  /\ update(step_increment)
  /\ pc' = "display"
  /\ UNCHANGED <<total_steps, step_increment, i>>

\* ... display(), and the loop takes its next value
SimDisplay ==
  /\ pc = "display"
  /\ display
  /\ i' = range_next(i, step_increment)
  /\ pc' = "loop"
  /\ UNCHANGED <<total_steps, step_increment>>

\* the range is exhausted
SimReturn ==
  /\ pc = "loop"
  /\ i >= total_steps
  /\ pc' = "done"
  /\ UNCHANGED <<phase, arg_total, obj, output, hist, total_steps, step_increment, i>>

SimNext == SimConstruct \/ SimUpdate \/ SimDisplay \/ SimReturn

SimSpec == SimInit /\ [][SimNext]_vars

\* Either caller.
AllSpec == (Init \/ SimInit) /\ [][Next \/ SimNext]_vars

(***************************************************************************)
(* Reading a written line back.                                            *)
(***************************************************************************)
Count(line, ch) == Cardinality({j \in DOMAIN line : line[j] = ch})

IsDigit(ch) == \E d \in DOMAIN Digit : Digit[d] = ch

DigitValue(ch) == (CHOOSE d \in DOMAIN Digit : Digit[d] = ch) - 1

RECURSIVE DigitsValue(_)
DigitsValue(ds) ==
  IF ds = <<>> THEN 0
  ELSE 10 * DigitsValue(SubSeq(ds, 1, Len(ds) - 1)) + DigitValue(ds[Len(ds)])

Completed == <<"C", "o", "m", "p", "l", "e", "t", "e", "d", "!">>

\* positions of the separating spaces of a line
Spaces(line) == {j \in DOMAIN line : line[j] = " "}

FirstSpace(line) == CHOOSE j \in Spaces(line) : \A k \in Spaces(line) : j <= k

LastSpace(line) == CHOOSE j \in Spaces(line) : \A k \in Spaces(line) : k <= j

SpinnerSegment(line) == SubSeq(line, 3, FirstSpace(line) - 1)

BarSegment(line) == SubSeq(line, FirstSpace(line) + 1, LastSpace(line) - 1)

StatusSegment(line) == SubSeq(line, LastSpace(line) + 1, Len(line))

StatusText(line) ==
  SubSeq(StatusSegment(line), 2, Len(StatusSegment(line)) - 1)

IsBar(seg, st) ==
  seg = <<st.color_full>> \o Rep(st.full_char, Count(seg, st.full_char))
        \o <<st.reset, st.color_empty>>
        \o Rep(st.empty_char, Count(seg, st.empty_char)) \o <<st.reset>>

\* text is [-]d+.dd% ; the digits without the point, as a signed number
IsTwoDecimalPercent(text) ==
  LET n    == Len(text)
      body == IF n > 0 /\ text[1] = "-" THEN SubSeq(text, 2, n) ELSE text
      m    == Len(body)
  IN  /\ m >= 5
      /\ body[m] = "%"
      /\ body[m - 3] = "."
      /\ \A j \in (1..(m - 4)) \cup {m - 2, m - 1} : IsDigit(body[j])

HundredthsOf(text) ==
  LET neg  == text[1] = "-"
      body == IF neg THEN SubSeq(text, 2, Len(text)) ELSE text
      m    == Len(body)
      h    == DigitsValue(SubSeq(body, 1, m - 4) \o SubSeq(body, m - 2, m - 1))
  IN  IF neg THEN -h ELSE h

LastWritten == output[Len(output) - 1].data

CeilDiv(a, b) == (a + b - 1) \div b

(***************************************************************************)
(* C1: in every state reachable from a successful construction by update   *)
(* calls with any integer amount and display calls, 0 <= current_value <=  *)
(* total.                                                                  *)
(***************************************************************************)
C1_CurrentWithinTotal ==
  phase = "live" => 0 <= current_value /\ current_value <= total

(***************************************************************************)
(* C2: once current_value = total, every later update, whatever its        *)
(* amount, leaves current_value = total.                                   *)
(***************************************************************************)
C2_CompletedIsTerminal ==
  [][phase = "live" /\ current_value = total => current_value' = total]_vars

(***************************************************************************)
(* C3: construction raises exactly when total is None or total <= 0, and   *)
(* then produces no object; otherwise it succeeds with current_value = 0,  *)
(* spinner_index = 0 and percentage = 0.                                   *)
(***************************************************************************)
C3_Construction ==
  [][phase = "new" /\ phase' # "new" =>
       IF arg_total'.is_none \/ arg_total'.val <= 0
       THEN phase' = "raised" /\ obj' = obj /\ output' = output
       ELSE /\ phase' = "live"
            /\ total' = arg_total'.val
            /\ current_value' = 0
            /\ spinner_index' = 0
            /\ percentage(current_value', total') = FZero]_vars

C3_Witness == phase = "raised" /\ ~arg_total.is_none /\ arg_total.val = 0

(***************************************************************************)
(* C4: while every amount passed to update is non-negative, current_value  *)
(* is min(S, total) for S the sum of the amounts, and no step decreases    *)
(* it; an amount that overshoots saturates at total.                       *)
(***************************************************************************)
C4_SaturatingSum ==
  /\ [](phase = "live" /\ non_negative => current_value = Min(sum_values, total))
  /\ [][phase = "live" /\ non_negative' => current_value' >= current_value]_vars

C4_Witness ==
  phase = "live" /\ non_negative /\ sum_values > total /\ current_value = total

(***************************************************************************)
(* C5: the k-th call of _get_spinner (k = 0, 1, ...) returns               *)
(* spinner_chars[k mod n], and spinner_index stays in [0, n), however      *)
(* update calls are interleaved.                                           *)
(***************************************************************************)
C5_SpinnerCycle ==
  phase = "live" =>
    /\ spinner_index \in 0..(Len(spinner_chars) - 1)
    /\ spinner_index = (Len(output) \div 2) % Len(spinner_chars)
    /\ \A j \in DOMAIN output :
         output[j].op = "write" =>
           SpinnerSegment(output[j].data) =
             <<style.color_spinner,
               spinner_chars[(((j - 1) \div 2) % Len(spinner_chars)) + 1],
               style.reset>>

C5_Witness ==
  /\ phase = "live"
  /\ Len(spinner_chars) = 2
  /\ Len(output) = 6
  /\ sum_values # 0
  /\ output[5].data[4] = spinner_chars[1]

(***************************************************************************)
(* C6: in every reachable state the bar of _generate_bar has               *)
(* floor(current_value * bar_length / total) fill glyphs, a number in      *)
(* 0..bar_length, followed by bar_length minus that many empty glyphs.     *)
(***************************************************************************)
C6_BarFill ==
  phase = "live" =>
    LET bar == generate_bar(current_value, total, bar_length, style)
        n   == (current_value * bar_length) \div total
    IN  /\ 0 <= n /\ n <= bar_length
        /\ bar = <<style.color_full>> \o Rep(style.full_char, n)
                 \o <<style.reset, style.color_empty>>
                 \o Rep(style.empty_char, bar_length - n) \o <<style.reset>>

(***************************************************************************)
(* C7: a display call writes "Completed!" in the completion colour, after  *)
(* a bar of fill glyphs only, iff current_value >= total at the call;      *)
(* otherwise it writes the percentage with exactly two decimals and '%'    *)
(* in the status colour.                                                   *)
(***************************************************************************)
C7_StatusSegment ==
  [][output' # output =>
       LET line == output'[Len(output') - 1].data
           seg  == StatusSegment(line)
           text == StatusText(line)
       IN  /\ seg[Len(seg)] = style.reset
           /\ IF current_value >= total
              THEN /\ seg[1] = style.color_complete
                   /\ text = Completed
                   /\ Count(line, style.full_char) = bar_length
                   /\ Count(line, style.empty_char) = 0
              ELSE /\ seg[1] = style.color_status
                   /\ IsTwoDecimalPercent(text)
                   /\ 2 * Abs(HundredthsOf(text) * total - 10000 * current_value)
                        <= total]_vars

C7_Witness ==
  /\ pc = "done"
  /\ total_steps = 10
  /\ step_increment = 1
  /\ Len(output) = 20
  /\ StatusText(LastWritten) = Completed
  /\ Count(LastWritten, style.full_char) = SimBarLength

(***************************************************************************)
(* C8: every display call makes one write and then one flush, so writes    *)
(* and flushes alternate starting with a write; a written line is "\r",    *)
(* the clear-line code, then the spinner, bar and status segments in that  *)
(* order, separated by single spaces.                                      *)
(***************************************************************************)
WellFormedLine(line) ==
  /\ line[1] = "\r"
  /\ line[2] = style.clear_line
  /\ Cardinality(Spaces(line)) = 2
  /\ \E g \in DOMAIN spinner_chars :
       SpinnerSegment(line) = <<style.color_spinner, spinner_chars[g], style.reset>>
  /\ IsBar(BarSegment(line), style)
  /\ StatusSegment(line)[1] \in {style.color_status, style.color_complete}
  /\ \/ StatusText(line) = Completed
     \/ IsTwoDecimalPercent(StatusText(line))
  /\ line[Len(line)] = style.reset

C8_WriteThenFlush ==
  /\ [](\A j \in DOMAIN output :
          output[j].op = IF j % 2 = 1 THEN "write" ELSE "flush")
  /\ [][output' # output =>
          /\ Len(output') = Len(output) + 2
          /\ SubSeq(output', 1, Len(output)) = output
          /\ output'[Len(output) + 1].op = "write"
          /\ WellFormedLine(output'[Len(output) + 1].data)
          /\ output'[Len(output) + 2] = [op |-> "flush"]]_vars

C8_Witness ==
  /\ Len(output) = 4
  /\ output[1].data # output[3].data
  /\ current_value < 0

(***************************************************************************)
(* C9: a display call advances spinner_index by one modulo the number of   *)
(* glyphs and leaves current_value, total and the style alone; an update   *)
(* call changes current_value only: not spinner_index, and nothing is      *)
(* written.                                                                *)
(***************************************************************************)
C9_Frames ==
  [][phase = "live" =>
       IF output' # output
       THEN /\ spinner_index' = (spinner_index + 1) % Len(spinner_chars)
            /\ UNCHANGED <<current_value, total, bar_length, spinner_chars, style>>
       ELSE UNCHANGED <<spinner_index, total, bar_length, spinner_chars, style,
                        output, phase>>]_vars

C9_Witness ==
  /\ phase = "live"
  /\ Len(output) = 2
  /\ spinner_index = 1
  /\ current_value = 2
  /\ sum_values = 3

(***************************************************************************)
(* C10: simulate_task with total_steps > 0 and step_increment > 0 ends     *)
(* after exactly ceil(total_steps / step_increment) iterations, each one   *)
(* update(step_increment) followed by one display; at the end              *)
(* current_value = total_steps and the last display is the only one that   *)
(* shows "Completed!".  Termination is stated by a measure that every      *)
(* step of the driver decreases and that is never negative.                *)
(***************************************************************************)
Iterations == CeilDiv(total_steps, step_increment)

Measure ==
  CASE pc = "start"   -> 2 * Iterations + 2
    [] pc = "loop"    -> 2 * (Iterations - Len(output) \div 2) + 1
    [] pc = "display" -> 2 * (Iterations - Len(output) \div 2)
    [] OTHER          -> 0

C10_DriverLoop ==
  /\ [][Measure' < Measure]_vars
  /\ [](Measure >= 0)
  /\ [](pc \in {"loop", "display", "done"} =>
          LET shown  == Len(output) \div 2
              called == shown + (IF pc = "display" THEN 1 ELSE 0)
              done   == {j \in DOMAIN output :
                           /\ output[j].op = "write"
                           /\ StatusText(output[j].data) = Completed}
          IN  /\ total_steps > 0
              /\ called <= Iterations
              /\ sum_values = called * step_increment
              /\ current_value = Min(sum_values, total_steps)
              /\ done \subseteq {2 * Iterations - 1}
              /\ pc = "done" =>
                   /\ shown = Iterations
                   /\ current_value = total_steps
                   /\ done = {2 * Iterations - 1})

C10_Witness ==
  /\ pc = "done"
  /\ total_steps = 10
  /\ step_increment = 3
  /\ Len(output) = 8
  /\ sum_values = 12

====
